---- MODULE Spec2Model ----
(***************************************************************************)
(* Model of the Clockodo API client (src/src/clockodo.ts): construction    *)
(* from the process environment, the fetch-and-validate primitive          *)
(* makeRequest, the three paginated retrievals getUsers / getEntries /     *)
(* getProjects, and the log file the client appends to.                    *)
(*                                                                         *)
(* Texts (error messages, log entries) are sequences of string tokens, so  *)
(* that "text t contains s" is "s is a token of t" and concatenation of    *)
(* template-string pieces is \o.  Timestamps of log lines are left out.    *)
(***************************************************************************)
EXTENDS Integers, Sequences, FiniteSets, TLC

VARIABLES
    env,        \* process.env restricted to the two credential names
    ctor,       \* "none" | "ok" | "threw": outcome of new ClockodoAPI()
    ctorError,  \* message of the error the constructor threw, <<>> if none
    client,     \* the fields of the constructed client (email, apiKey)
    log,        \* the log file: sequence of entries, <<>> = no file yet
    call,       \* the locals and the outcome of the retrieval in progress
    requests,   \* every HTTP request handed to fetch, in order
    fetched,    \* history: per answered request, its page and what came back
    lastResponse, \* history: the last outcome fetch delivered
    transport,  \* "closed" | "connected" | "exited": the gateway's stdio transport
    backend,    \* the remote service this run talks to: "drifting" | "recounting"
    calls,      \* concurrent retrievals: the locals and the outcome of each
    sent,       \* concurrent retrievals: the requests each has handed to fetch
    remote,     \* concurrent retrievals: the unchanging remote they read
    read        \* the read of the entries resource: its arguments and outcome

vars ==
    <<env, ctor, ctorError, client, log, call, requests, fetched, lastResponse,
      transport, backend, calls, sent, remote, read>>

\* The state of the concurrent retrievals.
concurrent == <<calls, sent, remote>>

(***************************************************************************)
(* Bounds and input sets                                                   *)
(***************************************************************************)
MaxPages == 3

EnvNames == {"CLOCKODO_EMAIL", "CLOCKODO_API_KEY"}
EmailValues == {"", "user@example.com"}
ApiKeyValues == {"", "s3cr3t-key"}

UserIds == {1, 2}
\* The <<timeSince, timeUntil>> pairs a caller passes to getEntries.
TimeRanges ==
    {<<"2025-09-01T00:00:00Z", "2025-09-30T23:59:59Z">>,
     <<"2025-10-01T00:00:00", "2025-10-31T23:59:59.999Z">>}

\* A raw JSON object as the remote may send it is a set of <<field, value>>
\* pairs; a field the remote left out has no pair.
Has(obj, f) == \E p \in obj : p[1] = f
Get(obj, f) == (CHOOSE p \in obj : p[1] = f)[2]
Pick(obj, F) == {p \in obj : p[1] \in F}

RawU1 == {<<"id", 7>>, <<"users_id", 1>>}
RawU2 == {<<"id", 8>>, <<"users_id", 2>>}
RawIdOnly == {<<"id", 9>>}
RawNoId == {<<"users_id", 1>>}
RawEmpty == {}

\* The arrays a well-formed page may carry.
ItemArrays == { <<>>, <<RawU1>>, <<RawU2, RawU1>> }

PagingFields == <<"items_per_page", "current_page", "count_pages", "count_items">>

Paging(cur, cnt) ==
    {<<"items_per_page", 2>>, <<"current_page", cur>>,
     <<"count_pages", cnt>>, <<"count_items", 0>>}

Pagings ==
    {Paging(cur, cnt) : cur \in 1..MaxPages, cnt \in 0..MaxPages}

PagingNoCount == {<<"items_per_page", 2>>, <<"current_page", 1>>}

\* A JSON body: the name of the array field it carries ("none": it carries
\* no array), the array, and the paging object (hasPaging FALSE: the body
\* has no paging field).
Body(key, items, hasPaging, paging) ==
    [payloadKey |-> key, items |-> items, hasPaging |-> hasPaging, paging |-> paging]

NoBody == Body("none", <<>>, FALSE, {})

PayloadKey(op) == IF op = "entries" THEN "entries" ELSE "data"

\* The bodies a 2xx answer to a request of retrieval op may carry: the
\* endpoint's own envelope with any array and any paging, and envelopes
\* that drifted from it (records without a required field, no count_pages,
\* no paging, the array under the other endpoint's name, neither field).
DriftedBodies(op) ==
    {Body(PayloadKey(op), <<RawIdOnly>>, TRUE, Paging(1, 1)),
     Body(PayloadKey(op), <<RawU1, RawNoId>>, TRUE, Paging(1, 1)),
     Body(PayloadKey(op), <<RawEmpty, RawNoId>>, TRUE, PagingNoCount),
     Body(PayloadKey(op), <<RawU1>>, FALSE, {}),
     Body(IF op = "entries" THEN "data" ELSE "entries", <<RawU1>>, TRUE,
          Paging(1, 1)),
     NoBody}

JsonBodies(op) ==
    {Body(PayloadKey(op), a, TRUE, p) : a \in ItemArrays, p \in Pagings}
        \cup DriftedBodies(op)

\* The well-formed bodies of a remote whose count_pages changes from answer
\* to answer and may be zero, negative or beyond the pages it has.
RecountingBodies(op) ==
    {Body(PayloadKey(op), <<RawU1>>, TRUE, Paging(1, cnt)) :
        cnt \in (-1)..(MaxPages + 1)}

\* The remote services a run may talk to.
Backends == {"drifting", "recounting"}

\* What fetch can deliver for one request.
TransportFailure(m) ==
    [kind |-> "transport", errorName |-> "TypeError", status |-> 0,
     statusText |-> "", message |-> m, bodyKind |-> "none", bodyText |-> "",
     body |-> NoBody]

TransportFailures == {TransportFailure(m) : m \in {"fetch failed", "terminated"}}

HttpErrors ==
    {[kind |-> "http", errorName |-> "", status |-> st[1], statusText |-> st[2],
      message |-> "",
      bodyKind |-> b[1], bodyText |-> b[2], body |-> b[3]] :
        st \in {<<401, "Unauthorized">>, <<500, "Internal Server Error">>},
        b \in {<<"text", "<html>error</html>", NoBody>>,
               <<"object", "{json}", Body("data", <<RawU1>>, TRUE, Paging(1, 1))>>}}

UnparsableBodies ==
    {[kind |-> "http", errorName |-> "", status |-> 200, statusText |-> "OK",
      message |-> "",
      bodyKind |-> k, bodyText |-> "", body |-> NoBody] : k \in {"text", "null"}}

JsonResponse(b) ==
    [kind |-> "http", errorName |-> "", status |-> 200, statusText |-> "OK",
     message |-> "", bodyKind |-> "object", bodyText |-> "{json}", body |-> b]

JsonResponses(op) ==
    {JsonResponse(b) :
        b \in IF backend = "recounting" THEN RecountingBodies(op) ELSE JsonBodies(op)}

\* An unchanging remote: it has count pages, answers page p of any family
\* with the same body every time, and (failAt > 0) fails every request for
\* page failAt in the same way.
Remotes ==
    {[count |-> n, failAt |-> 0, failure |-> "none"] : n \in 1..MaxPages}
        \cup {r \in [count : 1..MaxPages, failAt : 1..MaxPages,
                      failure : {"transport", "shape"}] : r.failAt <= r.count}

NoRemote == [count |-> 0, failAt |-> 0, failure |-> "none"]

AnswerOf(rem, op, page) ==
    IF page = rem.failAt /\ rem.failure = "transport"
    THEN TransportFailure("fetch failed")
    ELSE IF page = rem.failAt
    THEN JsonResponse(Body(PayloadKey(op), <<RawU1, RawNoId>>, TRUE,
                           Paging(page, rem.count)))
    ELSE JsonResponse(Body(PayloadKey(op),
                           IF page % 2 = 1 THEN <<RawU2, RawU1>> ELSE <<RawU1>>,
                           TRUE, Paging(page, rem.count)))

(***************************************************************************)
(* Texts                                                                   *)
(***************************************************************************)
RECURSIVE Flatten(_)
Flatten(ss) == IF ss = <<>> THEN <<>> ELSE Head(ss) \o Flatten(Tail(ss))

Tokens(text) == {text[i] : i \in DOMAIN text}

BoolText(b) == IF b THEN "true" ELSE "false"

BaseUrl == "https://my.clockodo.com/api"

\* An endpoint is a path and its query parameters in the order written.
UrlText(endpoint) ==
    <<BaseUrl, endpoint.path>>
        \o Flatten([i \in DOMAIN endpoint.query |->
                       <<endpoint.query[i][1], endpoint.query[i][2]>>])

(***************************************************************************)
(* Logger                                                                  *)
(***************************************************************************)
LogHeader == <<"=== Clockodo API Log Started ===">>

\* new Logger(): the header is written when the file does not exist yet.
LoggerInit(file) == IF file = <<>> THEN <<LogHeader>> ELSE file

\* log(message, data): one entry, the message followed by the JSON of data.
LogEntry(message, data) == message \o data

LogRequest(method, url, headers) ==
    LogEntry(<<">>> REQUEST", method>> \o url, <<"headers">> \o headers)

LogResponse(status, statusText) ==
    LogEntry(<<"<<< RESPONSE", ToString(status), statusText>>, <<>>)

LogError(error, details) == LogEntry(<<"!!! ERROR:">> \o error, details)

(***************************************************************************)
(* ClockodoAPI constructor                                                 *)
(***************************************************************************)
\* process.env.NAME || "": an unset name and an empty value both give "".
EnvOr(name) == IF name \in DOMAIN env THEN env[name] ELSE ""

\* Variant: the test written with && for ||.
CredentialsMissingBoth(email, apiKey) == email = "" /\ apiKey = ""

CredentialsMissing(email, apiKey) == email = "" \/ apiKey = ""

CtorMessage ==
    <<"CLOCKODO_EMAIL and CLOCKODO_API_KEY environment variables are required">>

InitEntry(email, apiKey) ==
    LogEntry(<<"ClockodoAPI initialized">>,
             <<"email", email, "baseUrl", BaseUrl,
               "hasApiKey", BoolText(apiKey # "")>>)

NoClient == [email |-> "", apiKey |-> ""]

Construct ==
    /\ ctor = "none"
    /\ LET email == EnvOr("CLOCKODO_EMAIL")
           apiKey == EnvOr("CLOCKODO_API_KEY")
           file == LoggerInit(log)
       IN IF CredentialsMissing(email, apiKey)
          THEN /\ ctor' = "threw"
               /\ ctorError' = CtorMessage
               /\ client' = NoClient
               /\ log' = file
          ELSE /\ ctor' = "ok"
               /\ ctorError' = <<>>
               /\ client' = [email |-> email, apiKey |-> apiKey]
               /\ log' = Append(file, InitEntry(email, apiKey))
    /\ UNCHANGED <<env, call, requests, fetched, lastResponse, backend, read>>
    /\ UNCHANGED concurrent

(***************************************************************************)
(* main of the gateway                                                     *)
(***************************************************************************)
\* Variant: the transport is connected whatever the constructor did.
ConnectAlways(constructed) == "connected"

\* main calls new ClockodoAPI() before server.connect(transport); an error
\* thrown on the way rejects main(), whose catch handler ends the process.
Connect(constructed) == IF constructed = "ok" THEN "connected" ELSE "exited"

\* The gateway starts: main up to the end of its body, or to process.exit(1).
Main ==
    /\ transport = "closed"
    /\ Construct
    /\ transport' = Connect(ctor')

(***************************************************************************)
(* makeRequest                                                             *)
(***************************************************************************)
FetchHeaders(email, apiKey) ==
    <<"Accept", "application/json", "X-ClockodoApiUser", email,
      "X-ClockodoApiKey", apiKey, "X-Clockodo-External-Application", "mcp-ts">>

\* Variant: the headers logged as they are sent.
LoggedHeadersUnmasked(email, apiKey) == FetchHeaders(email, apiKey)

LoggedHeaders(email, apiKey) ==
    <<"Accept", "application/json", "X-ClockodoApiUser", email,
      "X-ClockodoApiKey", "***", "X-Clockodo-External-Application", "mcp-ts">>

\* The synchronous head of makeRequest: the request is logged and handed
\* to fetch.
Request(endpoint, email, apiKey) ==
    [method |-> "GET", path |-> endpoint.path, query |-> endpoint.query,
     headers |-> FetchHeaders(email, apiKey)]

RequestEntry(endpoint, email, apiKey) ==
    LogRequest("GET", UrlText(endpoint), LoggedHeaders(email, apiKey))

\* Variant: the status is not looked at before the body is parsed.
ResponseOkAlways(status) == TRUE

\* response.ok
ResponseOk(status) == status >= 200 /\ status <= 299

\* Variant: the error message repeats the response body.
HttpMessageWithBody(resp) ==
    <<"HTTP ", ToString(resp.status), ": ", resp.statusText, " ", resp.bodyText>>

HttpMessage(resp) == <<"HTTP ", ToString(resp.status), ": ", resp.statusText>>

SyntaxErrorMessage == <<"Unexpected token < in JSON at position 0">>
NullKeysMessage == <<"Cannot convert undefined or null to object">>

\* The response schemas, reduced to the fields the retrievals read or
\* that tell the three record shapes apart: a user and a project need id,
\* an entry needs id and users_id; the paging object needs its four
\* numbers.  A field is either present with the right type or missing.
RequiredFields(op) == IF op = "entries" THEN <<"id", "users_id">> ELSE <<"id">>

\* z.object() drops the keys its schema does not name.
KnownFields(op) == Tokens(RequiredFields(op))

Issue(path) == <<"invalid_type", "Required">> \o path

MissingIssues(obj, fields, path) ==
    Flatten([i \in DOMAIN fields |->
                IF Has(obj, fields[i]) THEN <<>>
                ELSE <<Issue(path \o <<fields[i]>>)>>])

\* Variant: only the first record of the array is validated.
ItemsIssuesFirstOnly(op, body) ==
    IF body.payloadKey # PayloadKey(op)
    THEN <<Issue(<<PayloadKey(op)>>)>>
    ELSE IF body.items = <<>> THEN <<>>
    ELSE MissingIssues(body.items[1], RequiredFields(op), <<PayloadKey(op), "0">>)

ItemsIssues(op, body) ==
    IF body.payloadKey # PayloadKey(op)
    THEN <<Issue(<<PayloadKey(op)>>)>>
    ELSE Flatten([i \in DOMAIN body.items |->
                     MissingIssues(body.items[i], RequiredFields(op),
                                   <<PayloadKey(op), ToString(i - 1)>>)])

PagingIssues(body) ==
    IF ~body.hasPaging THEN <<Issue(<<"paging">>)>>
    ELSE MissingIssues(body.paging, PagingFields, <<"paging">>)

\* schema.parse collects the issues of the whole body, in schema order.
SchemaIssues(op, body) == ItemsIssues(op, body) \o PagingIssues(body)

\* Variant: the message of the first issue only.
ZodMessageFirst(issues) == issues[1]

\* ZodError.message is the list of all issues.
ZodMessage(issues) == Flatten(issues)

SchemaParse(op, body) ==
    [items |-> [i \in DOMAIN body.items |-> Pick(body.items[i], KnownFields(op))],
     paging |-> Pick(body.paging, Tokens(PagingFields))]

NoValue == [items |-> <<>>, paging |-> {}]

BodyKeys(body) ==
    (IF body.payloadKey = "none" THEN <<>> ELSE <<body.payloadKey>>)
        \o (IF body.hasPaging THEN <<"paging">> ELSE <<>>)

\* data?.entries?.length || data?.data?.length || 'unknown'
EntryCount(body) ==
    IF body.payloadKey # "none" /\ Len(body.items) > 0
    THEN ToString(Len(body.items)) ELSE "unknown"

DataReceivedEntry(body) ==
    LogEntry(<<"Response data received">>,
             <<"dataType", "object", "isArray", "false", "keys">>
                 \o BodyKeys(body) \o <<"entryCount", EntryCount(body)>>)

RequestFailedEntry(message, url) ==
    LogError(<<"Request failed">>, <<"error">> \o message \o <<"url">> \o url)

\* An error: the name of its class and its message.
Err(name, message) == [name |-> name, message |-> message]

\* Variant: the catch block throws a new Error naming the URL.
RethrownWithUrl(error, url) == Err("Error", error.message \o <<" at ">> \o url)

\* The catch block of makeRequest throws what it caught, unless that is a
\* ZodError.
Rethrown(error, url) == error

Thrown(kind, error, written) ==
    [ok |-> FALSE, kind |-> kind, name |-> error.name, message |-> error.message,
     written |-> written, value |-> NoValue]

\* What makeRequest does with the outcome resp of fetch: the value it
\* returns or the error it throws, and the entries it appends to the log.
MakeRequest(op, endpoint, resp) ==
    LET url == UrlText(endpoint)
        status == LogResponse(resp.status, resp.statusText)
        fetchError == Err(resp.errorName, <<resp.message>>)
        httpError == Err("Error", HttpMessage(resp))
        syntaxError == Err("SyntaxError", SyntaxErrorMessage)
        keysError == Err("TypeError", NullKeysMessage)
    IN  IF resp.kind = "transport"
        THEN Thrown("transport", Rethrown(fetchError, url),
                    <<RequestFailedEntry(fetchError.message, url)>>)
        ELSE IF ~ResponseOk(resp.status)
        THEN Thrown("http", Rethrown(httpError, url),
                    <<status,
                      LogError(HttpMessage(resp),
                               <<"url">> \o url \o <<"responseBody", resp.bodyText>>),
                      RequestFailedEntry(httpError.message, url)>>)
        ELSE IF resp.bodyKind = "text"
        THEN Thrown("syntax", Rethrown(syntaxError, url),
                    <<status, RequestFailedEntry(syntaxError.message, url)>>)
        ELSE IF resp.bodyKind = "null"
        THEN Thrown("type", Rethrown(keysError, url),
                    <<status, RequestFailedEntry(keysError.message, url)>>)
        ELSE LET issues == SchemaIssues(op, resp.body)
             IN  IF issues # <<>>
                 THEN Thrown("shape",
                             Err("Error", <<"Invalid API response format: ">>
                                              \o ZodMessage(issues)),
                             <<status, DataReceivedEntry(resp.body),
                               LogError(<<"Zod validation error">>,
                                        <<"error">> \o ZodMessage(issues)
                                            \o <<"issues">> \o ZodMessage(issues))>>)
                 ELSE [ok |-> TRUE, kind |-> "ok", name |-> "", message |-> <<>>,
                       written |-> <<status, DataReceivedEntry(resp.body),
                                     LogEntry(<<"Data successfully validated with schema">>,
                                              <<>>)>>,
                       value |-> SchemaParse(op, resp.body)]

(***************************************************************************)
(* getUsers / getEntries / getProjects                                     *)
(***************************************************************************)
NoCall ==
    [pc |-> "idle", op |-> "none", userId |-> 0, timeSince |-> "", timeUntil |-> "",
     page |-> 0, hasMorePages |-> FALSE, all |-> <<>>, result |-> <<>>,
     error |-> <<>>]

\* The locals of a retrieval at its first pass through the loop head.
NewCall(op, userId, timeSince, timeUntil) ==
    [pc |-> "await", op |-> op, userId |-> userId, timeSince |-> timeSince,
     timeUntil |-> timeUntil, page |-> 1, hasMorePages |-> TRUE, all |-> <<>>,
     result |-> <<>>, error |-> <<>>]

\* Variant: getEntries sends the filter it computes.
EndpointWithFilter(c) ==
    IF c.op = "users"
    THEN [path |-> "/v3/users", query |-> <<<<"page", ToString(c.page)>>>>]
    ELSE IF c.op = "projects"
    THEN [path |-> "/v4/projects", query |-> <<<<"page", ToString(c.page)>>>>]
    ELSE [path |-> "/v2/entries",
          query |-> <<<<"time_since", c.timeSince>>, <<"time_until", c.timeUntil>>,
                      <<"filter", ToString(c.userId)>>,
                      <<"page", ToString(c.page)>>>>]

\* The endpoint string each retrieval builds for its current page.
Endpoint(c) ==
    IF c.op = "users"
    THEN [path |-> "/v3/users", query |-> <<<<"page", ToString(c.page)>>>>]
    ELSE IF c.op = "projects"
    THEN [path |-> "/v4/projects", query |-> <<<<"page", ToString(c.page)>>>>]
    ELSE [path |-> "/v2/entries",
          query |-> <<<<"time_since", c.timeSince>>, <<"time_until", c.timeUntil>>,
                      <<"page", ToString(c.page)>>>>]

\* Variant: no client-side filter.
KeepItemUnfiltered(c, item) == TRUE

\* getEntries keeps the entries of the requested user; the others keep all.
KeepItem(c, item) == c.op # "entries" \/ Get(item, "users_id") = c.userId

\* Variant: the comparison written with <= for <.
HasMorePagesInclusive(page, paging) == page <= Get(paging, "count_pages")

\* Variant: the envelope's current_page compared, not the page counter.
HasMorePagesFromEnvelope(page, paging) ==
    Get(paging, "current_page") < Get(paging, "count_pages")

\* Variant: the loop runs until the counter meets count_pages.
HasMorePagesUntilEqual(page, paging) == page # Get(paging, "count_pages")

HasMorePages(page, paging) == page < Get(paging, "count_pages")

\* Variant: a record already accumulated is not appended again.
OnPageDistinct(c, parsed) ==
    LET Seen(e) == \E i \in DOMAIN c.all : c.all[i] = e
        Keep(e) == KeepItem(c, e) /\ ~Seen(e)
    IN  [c EXCEPT !.all = c.all \o SelectSeq(parsed.items, Keep),
                  !.hasMorePages = HasMorePages(c.page, parsed.paging),
                  !.page = c.page + 1]

\* Variant: the page counter is not incremented.
OnPageSamePage(c, parsed) ==
    LET Keep(e) == KeepItem(c, e)
    IN  [c EXCEPT !.all = c.all \o SelectSeq(parsed.items, Keep),
                  !.hasMorePages = HasMorePages(c.page, parsed.paging)]

\* The loop body after the await: append, decide, count.
OnPage(c, parsed) ==
    LET Keep(e) == KeepItem(c, e)
    IN  [c EXCEPT !.all = c.all \o SelectSeq(parsed.items, Keep),
                  !.hasMorePages = HasMorePages(c.page, parsed.paging),
                  !.page = c.page + 1]

\* The loop test: another pass (the next await) or return of the list.
LoopTest(c) ==
    IF c.hasMorePages THEN c
    ELSE [c EXCEPT !.pc = "returned", !.result = c.all]

\* Variant: the getUsers message in every catch block.
ErrorPrefixUsers(op) == <<"Failed to fetch ", "users", " from Clockodo API: ">>

ErrorPrefix(op) == <<"Failed to fetch ", op, " from Clockodo API: ">>

\* Variant: the catch block returns what was accumulated.
OnThrowPartial(c, message) == [c EXCEPT !.pc = "returned", !.result = c.all]

\* Variant: the catch block requests the same page again.
OnThrowRetry(c, message) == c

\* The catch block of a retrieval.
OnThrow(c, message) ==
    [c EXCEPT !.pc = "threw", !.error = ErrorPrefix(c.op) \o message]

\* Variant: the next page is requested together with the current one.
AwaitedWithPrefetch(c) == <<Endpoint(c), Endpoint([c EXCEPT !.page = c.page + 1])>>

\* The endpoints a pass through the loop body requests before it suspends:
\* the one of "await this.makeRequest(endpoint, schema)".
Awaited(c) == <<Endpoint(c)>>

\* The requests such a pass sends.
Sent(c, email, apiKey) ==
    [i \in DOMAIN Awaited(c) |-> Request(Awaited(c)[i], email, apiKey)]

(***************************************************************************)
(* The entries resource handler of the gateway                             *)
(***************************************************************************)
\* The <<{userId}, {timeSince}, {timeUntil}>> texts of the resource URIs
\* read: numbers, a text that begins with a digit, texts that do not, and
\* timestamps with and without the shape the handler asks for.
EntriesReads ==
    {<<"1", "2025-09-01T00:00:00Z", "2025-09-30T23:59:59Z">>,
     <<"2", "2025-10-01T00:00:00", "2025-10-31T23:59:59.999Z">>,
     <<"2abc", "2025-09-01T00:00:00Z", "2025-09-30T23:59:59Z">>,
     <<"abc", "2025-09-01T00:00:00Z", "2025-09-30T23:59:59Z">>,
     <<"", "2025-10-01T00:00:00", "2025-10-31T23:59:59.999Z">>,
     <<"1", "2025-09-01", "2025-09-30T23:59:59Z">>,
     <<"2", "2025-09-01T00:00:00Z", "2025-09-30T23:59:59+02:00">>,
     <<"abc", "2025-09-01", "2025-09-30T23:59:59Z">>}

\* The characters of the texts above, one by one.
Chars(text) ==
    IF text = "1"
    THEN <<"1">>
    ELSE IF text = "2"
    THEN <<"2">>
    ELSE IF text = "2abc"
    THEN <<"2", "a", "b", "c">>
    ELSE IF text = "abc"
    THEN <<"a", "b", "c">>
    ELSE IF text = ""
    THEN <<>>
    ELSE IF text = "2025-09-01T00:00:00Z"
    THEN <<"2", "0", "2", "5", "-", "0", "9", "-", "0", "1", "T", "0", "0", ":", "0", "0", ":", "0", "0", "Z">>
    ELSE IF text = "2025-09-30T23:59:59Z"
    THEN <<"2", "0", "2", "5", "-", "0", "9", "-", "3", "0", "T", "2", "3", ":", "5", "9", ":", "5", "9", "Z">>
    ELSE IF text = "2025-10-01T00:00:00"
    THEN <<"2", "0", "2", "5", "-", "1", "0", "-", "0", "1", "T", "0", "0", ":", "0", "0", ":", "0", "0">>
    ELSE IF text = "2025-10-31T23:59:59.999Z"
    THEN <<"2", "0", "2", "5", "-", "1", "0", "-", "3", "1", "T", "2", "3", ":", "5", "9", ":", "5", "9", ".", "9", "9", "9", "Z">>
    ELSE IF text = "2025-09-01"
    THEN <<"2", "0", "2", "5", "-", "0", "9", "-", "0", "1">>
    ELSE IF text = "2025-09-30T23:59:59+02:00"
    THEN <<"2", "0", "2", "5", "-", "0", "9", "-", "3", "0", "T", "2", "3", ":", "5", "9", ":", "5", "9", "+", "0", "2", ":", "0", "0">>
    ELSE <<>>

IsDigit(ch) == ch \in {"0", "1", "2", "3", "4", "5", "6", "7", "8", "9"}

DigitValue(ch) == CHOOSE d \in 0..9 : ToString(d) = ch

IsSpace(ch) == ch \in {" ", "\t", "\n"}

\* The longest run of digits a text begins with.
RECURSIVE LeadingDigits(_)
LeadingDigits(chars) ==
    IF chars = <<>> \/ ~IsDigit(Head(chars)) THEN <<>>
    ELSE <<Head(chars)>> \o LeadingDigits(Tail(chars))

RECURSIVE DecimalValue(_)
DecimalValue(digits) ==
    IF digits = <<>> THEN 0
    ELSE 10 * DecimalValue(SubSeq(digits, 1, Len(digits) - 1))
             + DigitValue(digits[Len(digits)])

RECURSIVE TrimStart(_)
TrimStart(chars) ==
    IF chars # <<>> /\ IsSpace(Head(chars)) THEN TrimStart(Tail(chars)) ELSE chars

\* parseInt(text, 10): leading white space is skipped, a sign is read, then
\* the longest run of digits; what follows is ignored; no digit gives NaN.
ParseInt(chars) ==
    LET trimmed == TrimStart(chars)
        signed == trimmed # <<>> /\ Head(trimmed) \in {"+", "-"}
        digits == LeadingDigits(IF signed THEN Tail(trimmed) ELSE trimmed)
        value == DecimalValue(digits)
    IN  IF digits = <<>> THEN [nan |-> TRUE, value |-> 0]
        ELSE [nan |-> FALSE,
              value |-> IF signed /\ Head(trimmed) = "-" THEN 0 - value ELSE value]

\* /^\d{4}-\d{2}-\d{2}T\d{2}:\d{2}:\d{2}(\.\d{3})?Z?$/.test(text)
DateRegexTest(chars) ==
    LET shape == <<"d", "d", "d", "d", "-", "d", "d", "-", "d", "d", "T",
                   "d", "d", ":", "d", "d", ":", "d", "d">>
        Fits(i) == IF shape[i] = "d" THEN IsDigit(chars[i]) ELSE chars[i] = shape[i]
        rest == SubSeq(chars, Len(shape) + 1, Len(chars))
        millis == /\ Len(rest) >= 4
                  /\ rest[1] = "."
                  /\ \A i \in 2..4 : IsDigit(rest[i])
        tail == IF millis THEN SubSeq(rest, 5, Len(rest)) ELSE rest
    IN  /\ Len(chars) >= Len(shape)
        /\ \A i \in DOMAIN shape : Fits(i)
        /\ tail \in {<<>>, <<"Z">>}

NoRead ==
    [userId |-> "", timeSince |-> "", timeUntil |-> "", outcome |-> "none",
     invocations |-> 0, error |-> <<>>]

\* The handler's catch block.
ReadError(message) == <<"Failed to fetch entries: ">> \o message

\* The handler after "await clockodoAPI.getEntries(...)" for retrieval c.
AfterRetrieval(r, c) ==
    IF r.outcome # "pending" THEN r
    ELSE IF c.pc = "returned" THEN [r EXCEPT !.outcome = "served"]
    ELSE IF c.pc = "threw"
    THEN [r EXCEPT !.outcome = "failed", !.error = ReadError(c.error)]
    ELSE r

\* A retrieval runs from its call to its first await in one step.  A run
\* follows one resource read.
Start(op, userId, timeSince, timeUntil) ==
    /\ ctor = "ok"
    /\ transport = "connected"
    /\ call.pc = "idle"
    /\ read.outcome = "none"
    /\ LET c == NewCall(op, userId, timeSince, timeUntil)
       IN  /\ call' = c
           /\ log' = Append(log, RequestEntry(Endpoint(c), client.email, client.apiKey))
           /\ requests' = requests \o Sent(c, client.email, client.apiKey)
    /\ UNCHANGED <<env, ctor, ctorError, client, fetched, lastResponse, transport,
                   backend>>
    /\ UNCHANGED concurrent

GetUsers == Start("users", 0, "", "") /\ UNCHANGED read

GetProjects == Start("projects", 0, "", "") /\ UNCHANGED read

GetEntries(userId, timeSince, timeUntil) ==
    Start("entries", userId, timeSince, timeUntil)

\* The handler rejects the read: nothing but its error is left.
Reject(userId, timeSince, timeUntil, message) ==
    /\ ctor = "ok"
    /\ transport = "connected"
    /\ call.pc = "idle"
    /\ read.outcome = "none"
    /\ read' = [userId |-> userId, timeSince |-> timeSince, timeUntil |-> timeUntil,
                outcome |-> "rejected", invocations |-> 0,
                error |-> ReadError(message)]
    /\ UNCHANGED <<env, ctor, ctorError, client, log, call, requests, fetched,
                   lastResponse, transport, backend>>
    /\ UNCHANGED concurrent

\* A read of clockodo://entries/{userId}/{timeSince}/{timeUntil}: the
\* handler up to its throw or to the first await of getEntries.
ReadEntries ==
    \E uri \in EntriesReads :
        LET userId == uri[1]
            timeSince == uri[2]
            timeUntil == uri[3]
            userIdNum == ParseInt(Chars(userId))
        IN  IF userIdNum.nan
            THEN Reject(userId, timeSince, timeUntil,
                        <<"Invalid userId: must be a number">>)
            ELSE IF ~DateRegexTest(Chars(timeSince)) \/ ~DateRegexTest(Chars(timeUntil))
            THEN Reject(userId, timeSince, timeUntil,
                        <<"Invalid date format. Use ISO 8601 format: YYYY-MM-DDTHH:mm:ssZ">>)
            ELSE /\ GetEntries(userIdNum.value, timeSince, timeUntil)
                 /\ read' = [userId |-> userId, timeSince |-> timeSince,
                             timeUntil |-> timeUntil, outcome |-> "pending",
                             invocations |-> 1, error |-> <<>>]

\* No remote of the model keeps a retrieval going beyond this many requests.
PageCap == MaxPages + 1

\* What the history keeps of one answered request.
Fetched(c, resp, r) ==
    [page |-> c.page, kind |-> r.kind, name |-> r.name, message |-> r.message,
     items |-> IF r.ok THEN resp.body.items ELSE <<>>,
     count_pages |-> IF r.ok THEN Get(resp.body.paging, "count_pages") ELSE 0]

\* fetch settles with resp: the rest of makeRequest, then the retrieval
\* up to its next await, its return or its throw.
Respond(resp) ==
    /\ call.pc = "await"
    /\ Len(requests) <= PageCap
    /\ LET r == MakeRequest(call.op, Endpoint(call), resp)
           c == IF r.ok THEN LoopTest(OnPage(call, r.value))
                ELSE OnThrow(call, r.message)
       IN  /\ call' = c
           /\ fetched' = Append(fetched, Fetched(call, resp, r))
           /\ IF c.pc = "await"
              THEN /\ log' = Append(log \o r.written,
                                    RequestEntry(Endpoint(c), client.email,
                                                 client.apiKey))
                   /\ requests' = requests \o Sent(c, client.email, client.apiKey)
              ELSE /\ log' = log \o r.written
                   /\ requests' = requests
           /\ read' = AfterRetrieval(read, c)
    /\ lastResponse' = resp
    /\ UNCHANGED <<env, ctor, ctorError, client, transport, backend>>
    /\ UNCHANGED concurrent

FetchFails == \E resp \in TransportFailures : Respond(resp)

HttpErrorArrives == \E resp \in HttpErrors : Respond(resp)

UnparsableArrives == \E resp \in UnparsableBodies : Respond(resp)

JsonArrives == \E resp \in JsonResponses(call.op) : Respond(resp)

(***************************************************************************)
(* Retrievals in progress at the same time on one client                   *)
(***************************************************************************)
CallIds == {1, 2}

\* The value of the page query parameter of a request.
PageOf(req) ==
    LET q == req.query
    IN  q[CHOOSE i \in DOMAIN q : q[i][1] = "page"][2]

\* The page number a request asks for.
PageNumber(req) == CHOOSE p \in 1..(PageCap + 1) : ToString(p) = PageOf(req)

\* Variant: the page counter is a field of the client, shared by its calls.
LocalsSharedPage(cs, id) ==
    LET high == CHOOSE p \in {cs[i].page : i \in CallIds} :
                    \A i \in CallIds : cs[i].page <= p
    IN  [cs[id] EXCEPT !.page = high]

\* page, hasMorePages and the accumulator are locals of each invocation.
Locals(cs, id) == cs[id]

\* Retrieval id runs from its call to its first await.
StartOf(id, op, userId, timeSince, timeUntil) ==
    /\ ctor = "ok"
    /\ transport = "connected"
    /\ remote \in Remotes
    /\ calls[id].pc = "idle"
    /\ \A i \in CallIds : i < id => calls[i].pc # "idle"
    /\ LET c == NewCall(op, userId, timeSince, timeUntil)
       IN  /\ calls' = [calls EXCEPT ![id] = c]
           /\ log' = Append(log, RequestEntry(Endpoint(c), client.email, client.apiKey))
           /\ sent' = [sent EXCEPT ![id] = Sent(c, client.email, client.apiKey)]
    /\ UNCHANGED <<env, ctor, ctorError, client, call, requests, fetched,
                   lastResponse, transport, backend, remote, read>>

GetUsersOf(id) == StartOf(id, "users", 0, "", "")

GetProjectsOf(id) == StartOf(id, "projects", 0, "", "")

GetEntriesOf(id) ==
    \E userId \in UserIds, range \in TimeRanges :
        StartOf(id, "entries", userId, range[1], range[2])

\* The fetch of retrieval id settles with the remote's answer: the rest of
\* makeRequest, then the retrieval up to its next await, return or throw.
SettleOf(id) ==
    /\ calls[id].pc = "await"
    /\ Len(sent[id]) <= PageCap
    /\ LET mine == Locals(calls, id)
           resp == AnswerOf(remote, mine.op, PageNumber(sent[id][Len(sent[id])]))
           r == MakeRequest(mine.op, Endpoint(mine), resp)
           c == IF r.ok THEN LoopTest(OnPage(mine, r.value))
                ELSE OnThrow(mine, r.message)
       IN  /\ calls' = [calls EXCEPT ![id] = c]
           /\ IF c.pc = "await"
              THEN /\ log' = Append(log \o r.written,
                                    RequestEntry(Endpoint(c), client.email,
                                                 client.apiKey))
                   /\ sent' = [sent EXCEPT
                                  ![id] = @ \o Sent(c, client.email, client.apiKey)]
              ELSE /\ log' = log \o r.written
                   /\ sent' = sent
    /\ UNCHANGED <<env, ctor, ctorError, client, call, requests, fetched,
                   lastResponse, transport, backend, remote, read>>

Settle == \E id \in CallIds : SettleOf(id)

(***************************************************************************)
(* Specification                                                           *)
(***************************************************************************)
EnvStates ==
    {[n \in D |-> IF n = "CLOCKODO_EMAIL" THEN e ELSE k] :
        D \in SUBSET EnvNames, e \in EmailValues, k \in ApiKeyValues}

NoResponse ==
    [kind |-> "none", errorName |-> "", status |-> 0, statusText |-> "",
     message |-> "",
     bodyKind |-> "none", bodyText |-> "", body |-> NoBody]

Init ==
    /\ env \in EnvStates
    /\ ctor = "none"
    /\ ctorError = <<>>
    /\ client = NoClient
    /\ log = <<>>
    /\ call = NoCall
    /\ requests = <<>>
    /\ fetched = <<>>
    /\ lastResponse = NoResponse
    /\ transport = "closed"
    /\ backend \in Backends
    /\ calls = [id \in CallIds |-> NoCall]
    /\ sent = [id \in CallIds |-> <<>>]
    /\ remote = NoRemote
    /\ read = NoRead

Next ==
    \/ Main
    \/ GetUsers
    \/ GetProjects
    \/ ReadEntries
    \/ FetchFails
    \/ HttpErrorArrives
    \/ UnparsableArrives
    \/ JsonArrives

Spec == Init /\ [][Next]_vars

\* fetch settles: every request is answered or fails.
Responds == FetchFails \/ HttpErrorArrives \/ UnparsableArrives \/ JsonArrives

\* A connected gateway whose client holds both credentials, in front of an
\* unchanging remote, before any retrieval.
InitConnected ==
    /\ env = [n \in EnvNames |->
                 IF n = "CLOCKODO_EMAIL" THEN "user@example.com" ELSE "s3cr3t-key"]
    /\ ctor = "ok"
    /\ ctorError = <<>>
    /\ client = [email |-> "user@example.com", apiKey |-> "s3cr3t-key"]
    /\ log = Append(LoggerInit(<<>>), InitEntry("user@example.com", "s3cr3t-key"))
    /\ call = NoCall
    /\ requests = <<>>
    /\ fetched = <<>>
    /\ lastResponse = NoResponse
    /\ transport = "connected"
    /\ backend = "drifting"
    /\ calls = [id \in CallIds |-> NoCall]
    /\ sent = [id \in CallIds |-> <<>>]
    /\ remote \in Remotes
    /\ read = NoRead

NextConcurrent ==
    \/ \E id \in CallIds : GetUsersOf(id)
    \/ \E id \in CallIds : GetProjectsOf(id)
    \/ \E id \in CallIds : GetEntriesOf(id)
    \/ Settle

ConcurrentSpec == InitConnected /\ [][NextConcurrent]_vars

InitRecounting == Init /\ backend = "recounting"

\* The runs against the recounting remote in which no request stays
\* unanswered for ever.
FairSpec == InitRecounting /\ [][Next]_vars /\ WF_vars(Responds)

(***************************************************************************)
(* Readings of the history                                                 *)
(***************************************************************************)
Last(seq) == seq[Len(seq)]

\* The items of the answered pages, page 1 first, as the remote sent them.
Received == Flatten([i \in DOMAIN fetched |-> fetched[i].items])

SomeFailed == \E i \in DOMAIN fetched : fetched[i].kind # "ok"

BothCredentialsSet ==
    \A n \in EnvNames : n \in DOMAIN env /\ env[n] # ""

(***************************************************************************)
(* Claims                                                                  *)
(***************************************************************************)

\* C1: against a backend that never fails and declares the same
\* count_pages = N >= 1 on every page, a retrieval requests pages 1, 2, ...
\* in ascending order, never more than N of them, returns exactly when the
\* N-th page has been answered, and (getUsers, getProjects) returns as many
\* items as the pages carried in total.
C1_ExactlyNPagesAscending ==
    \A N \in 1..MaxPages :
        (fetched # <<>> /\ \A i \in DOMAIN fetched :
                               fetched[i].kind = "ok" /\ fetched[i].count_pages = N)
        => /\ \A i \in DOMAIN requests : PageOf(requests[i]) = ToString(i)
           /\ Len(requests) <= N
           /\ call.pc \in {"await", "returned"}
           /\ (call.pc = "returned") = (Len(fetched) = N)
           /\ call.pc = "returned" =>
                 /\ Len(requests) = N
                 /\ call.op \in {"users", "projects"} =>
                        Len(call.result) = Len(Received)

C1_Witness ==
    /\ call.pc = "returned"
    /\ call.op = "projects"
    /\ Len(requests) = 3
    /\ \A i \in DOMAIN fetched : fetched[i].count_pages = 3
    /\ Len(call.result) = 5

\* C2: when the fetch of some page k fails, the retrieval ends with an
\* error and hands no item to its caller, whatever pages 1..k-1 carried.
C2_FailureDeliversNothing ==
    SomeFailed =>
        /\ call.pc = "threw"
        /\ call.result = <<>>
        /\ call.error # <<>>

C2_Witness ==
    /\ Len(fetched) = 2
    /\ fetched[1].kind = "ok"
    /\ fetched[1].count_pages = 3
    /\ fetched[1].items # <<>>
    /\ fetched[2].kind = "http"
    /\ call.pc = "threw"

\* C3: getEntries requests page after page as the declared count_pages
\* alone dictates (neither userId nor the number of matching entries plays
\* a part), and returns exactly the received entries whose users_id is
\* userId, in the order received.
C3_EntriesFilteredPagesUnchanged ==
    call.op = "entries" =>
        /\ \A i \in DOMAIN requests : PageOf(requests[i]) = ToString(i)
        /\ \A k \in DOMAIN fetched :
               fetched[k].kind = "ok" =>
                   (Len(requests) > k) = (k < fetched[k].count_pages)
        /\ call.pc = "returned" =>
               LET Mine(e) == Get(e, "users_id") = call.userId
               IN  call.result = SelectSeq(Received, Mine)

C3_Witness ==
    /\ call.op = "entries"
    /\ call.pc = "returned"
    /\ Len(fetched) = 2
    /\ call.userId = 2
    /\ Len(Received) = 3
    /\ call.result = <<RawU2>>

\* C4: the constructor succeeds exactly when both environment values are
\* set and non-empty; otherwise it throws the configuration error and
\* leaves no client, and no retrieval ever runs without a constructed one.
C4_ConstructionNeedsBothCredentials ==
    /\ ctor = "ok" =>
          /\ BothCredentialsSet
          /\ client.email = env["CLOCKODO_EMAIL"]
          /\ client.apiKey = env["CLOCKODO_API_KEY"]
          /\ ctorError = <<>>
    /\ ctor = "threw" =>
          /\ ~BothCredentialsSet
          /\ client = NoClient
          /\ ctorError =
               <<"CLOCKODO_EMAIL and CLOCKODO_API_KEY environment variables are required">>
    /\ ctor # "ok" => call = NoCall /\ requests = <<>>

C4_Witness ==
    /\ ctor = "threw"
    /\ "CLOCKODO_EMAIL" \in DOMAIN env
    /\ env["CLOCKODO_EMAIL"] # ""
    /\ "CLOCKODO_API_KEY" \in DOMAIN env
    /\ env["CLOCKODO_API_KEY"] = ""

\* C5: nothing is retried: a retrieval requests no page number twice, and
\* once a page fetch has failed it issues no further request.
C5_NoRetry ==
    /\ \A i, j \in DOMAIN requests :
           i # j => PageOf(requests[i]) # PageOf(requests[j])
    /\ \A k \in DOMAIN fetched :
           fetched[k].kind # "ok" => Len(requests) = k /\ Len(fetched) = k

C5_Witness ==
    /\ Len(fetched) = 3
    /\ fetched[3].kind = "transport"
    /\ Len(requests) = 3

\* The envelope of the last answer, when it was a validated page.
LastPaging == lastResponse.body.paging

PageAnswered == fetched # <<>> /\ Last(fetched).kind = "ok"

\* C6 as stated: the loop ends at the first answered page whose envelope
\* reports current_page >= count_pages and otherwise requests the page after
\* the reported current_page.
C6_LoopFollowsReportedCurrentPage ==
    PageAnswered =>
        /\ (call.pc = "returned") =
               (Get(LastPaging, "current_page") >= Get(LastPaging, "count_pages"))
        /\ call.pc = "await" =>
               PageOf(Last(requests)) = ToString(Get(LastPaging, "current_page") + 1)

\* C6 amended: the loop ends at the first answered page whose envelope
\* reports count_pages <= the page number the client requested, and
\* otherwise requests the requested page number plus one; the client's own
\* page counter decides, whatever current_page the envelope reports.
C6_LoopFollowsOwnPageCounter ==
    PageAnswered =>
        /\ (call.pc = "returned") =
               (Last(fetched).page >= Get(LastPaging, "count_pages"))
        /\ call.pc = "await" =>
               PageOf(Last(requests)) = ToString(Last(fetched).page + 1)
        /\ call.pc \in {"await", "returned"}

C6_Witness ==
    /\ PageAnswered
    /\ Last(fetched).page = 1
    /\ Get(LastPaging, "current_page") = 3
    /\ Get(LastPaging, "count_pages") = 2
    /\ call.pc = "await"
    /\ PageOf(Last(requests)) = "2"

\* The tokens of every text the client has produced: the entries of the
\* log file and the messages of the errors it has thrown.
Diagnostics ==
    UNION {Tokens(log[i]) : i \in DOMAIN log}
        \cup Tokens(call.error) \cup Tokens(ctorError)

LogTokens == UNION {Tokens(log[i]) : i \in DOMAIN log}

EnvValue(name) == IF name \in DOMAIN env THEN env[name] ELSE ""

\* C7: the API key is no part of any log entry nor of the message of any
\* error thrown by the constructor or by a retrieval.
C7_ApiKeyNeverInDiagnostics ==
    EnvValue("CLOCKODO_API_KEY") # "" =>
        EnvValue("CLOCKODO_API_KEY") \notin Diagnostics

C7_Witness ==
    /\ call.pc = "threw"
    /\ Len(fetched) = 2
    /\ Last(fetched).kind = "http"
    /\ \A i \in DOMAIN requests :
           EnvValue("CLOCKODO_API_KEY") \in Tokens(requests[i].headers)
    /\ "X-ClockodoApiKey" \in LogTokens
    /\ EnvValue("CLOCKODO_API_KEY") \notin Diagnostics

\* C8: neither credential value of the environment, the account identifier
\* or the API key, is ever written to the log file.
C8_NoCredentialLogged ==
    \A n \in EnvNames :
        EnvValue(n) # "" => EnvValue(n) \notin LogTokens

\* C9: a 2xx JSON body in which some record lacks a field its schema
\* requires makes the retrieval throw the response-shape error and return
\* nothing, on whatever page it arrives.
C9_MissingFieldFailsWholeRetrieval ==
    (/\ fetched # <<>>
     /\ lastResponse.kind = "http"
     /\ lastResponse.status = 200
     /\ lastResponse.bodyKind = "object"
     /\ \E i \in DOMAIN lastResponse.body.items :
            \/ ~Has(lastResponse.body.items[i], "id")
            \/ call.op = "entries" /\ ~Has(lastResponse.body.items[i], "users_id"))
    => /\ call.pc = "threw"
       /\ call.result = <<>>
       /\ Last(fetched).kind = "shape"
       /\ Len(call.error) > 4
       /\ call.error[4] = "Invalid API response format: "

C9_Witness ==
    /\ Len(fetched) = 2
    /\ fetched[1].kind = "ok"
    /\ fetched[1].items = <<RawU2, RawU1>>
    /\ lastResponse.body.items = <<RawU1, RawNoId>>
    /\ call.pc = "threw"
    /\ call.result = <<>>

\* The endpoint family a request path belongs to.
FamilyOf(path) ==
    IF path = "/v3/users" THEN "users"
    ELSE IF path = "/v2/entries" THEN "entries"
    ELSE IF path = "/v4/projects" THEN "projects"
    ELSE "unknown"

\* C10: a retrieval that fails throws an error whose message is "Failed to
\* fetch <family> from Clockodo API: " followed by the message makeRequest
\* threw, unchanged, where <family> is the family of the endpoint the
\* retrieval requested and the name of the operation called.
C10_ErrorNamesOperationAndKeepsCause ==
    call.pc = "threw" =>
        /\ call.error =
               <<"Failed to fetch ", FamilyOf(Last(requests).path),
                 " from Clockodo API: ">> \o Last(fetched).message
        /\ FamilyOf(Last(requests).path) = call.op
        /\ Last(fetched).message # <<>>

C10_Witness ==
    /\ call.pc = "threw"
    /\ call.op = "entries"
    /\ Last(fetched).kind = "shape"
    /\ call.error[2] = "entries"

\* C11 as stated: a transport failure leaves makeRequest as an error of the
\* kind fetch raised, and the error the caller of the retrieval receives
\* carries the endpoint path of the failed request.
C11_TransportErrorCarriesPath ==
    (call.pc = "threw" /\ Last(fetched).kind = "transport") =>
        /\ Last(fetched).name = lastResponse.errorName
        /\ Last(requests).path \in Tokens(call.error)

\* C11 amended: a transport failure leaves makeRequest as the very error
\* fetch raised (same class, same message); the URL of the failed request
\* goes to the "Request failed" log entry only, and the error the caller
\* receives is the operation prefix followed by the original message,
\* without the endpoint path.
C11_TransportErrorRethrownPathLoggedOnly ==
    (call.pc = "threw" /\ Last(fetched).kind = "transport") =>
        /\ Last(fetched).name = lastResponse.errorName
        /\ Last(fetched).message = <<lastResponse.message>>
        /\ call.error =
               <<"Failed to fetch ", FamilyOf(Last(requests).path),
                 " from Clockodo API: ", lastResponse.message>>
        /\ Last(requests).path \notin Tokens(call.error)
        /\ "Request failed" \in Tokens(Last(log))
        /\ Last(requests).path \in Tokens(Last(log))

C11_Witness ==
    /\ call.pc = "threw"
    /\ Len(fetched) = 2
    /\ Last(fetched).kind = "transport"
    /\ Last(fetched).name = "TypeError"
    /\ lastResponse.message = "terminated"
    /\ Last(requests).path = "/v2/entries"

\* The text that follows the operation prefix in the message of the error a
\* retrieval threw.
Cause == SubSeq(call.error, 4, Len(call.error))

\* C12: a non-2xx response makes the retrieval fail with an error whose cause
\* reads "HTTP <status>: <status text>" of that response; the response body
\* is in the log and not in the error; the cause begins with "HTTP " exactly
\* for this kind of failure, while a shape error begins with "Invalid API
\* response format: " and a transport error with neither.
C12_HttpErrorCarriesStatusNotBody ==
    call.pc = "threw" =>
        /\ Last(fetched).kind = "http" =>
               /\ ~ResponseOk(lastResponse.status)
               /\ Cause = <<"HTTP ", ToString(lastResponse.status), ": ",
                            lastResponse.statusText>>
               /\ lastResponse.bodyText \notin Tokens(call.error)
               /\ lastResponse.bodyText \in Tokens(Last(log)) \cup Tokens(log[Len(log) - 1])
        /\ (Head(Cause) = "HTTP ") <=> (Last(fetched).kind = "http")
        /\ (Head(Cause) = "Invalid API response format: ")
               <=> (Last(fetched).kind = "shape")
        /\ ~ResponseOk(lastResponse.status) => Last(fetched).kind \in {"http", "transport"}

C12_Witness ==
    /\ call.pc = "threw"
    /\ Len(fetched) = 2
    /\ Last(fetched).kind = "http"
    /\ lastResponse.status = 500
    /\ lastResponse.bodyText = "<html>error</html>"
    /\ Cause = <<"HTTP ", "500", ": ", "Internal Server Error">>

\* The requests of the retrieval that no response has settled yet.
InFlight == Len(requests) - Len(fetched)

\* C13: a retrieval has at most one request in flight, exactly one while it
\* is suspended and none once it has finished, and the request for page
\* k + 1 exists only when the response for page k has been received and
\* validated.
C13_PageFetchesStrictlySequential ==
    /\ InFlight \in {0, 1}
    /\ InFlight = 1 <=> call.pc = "await"
    /\ \A i \in DOMAIN requests :
           /\ PageOf(requests[i]) = ToString(i)
           /\ i > 1 => /\ i - 1 \in DOMAIN fetched
                       /\ fetched[i - 1].kind = "ok"
                       /\ fetched[i - 1].page = i - 1

C13_Witness ==
    /\ call.pc = "await"
    /\ Len(requests) = 3
    /\ Len(fetched) = 2
    /\ InFlight = 1

\* C15 as stated: the result of a successful retrieval is the concatenation,
\* page 1 first, of the item arrays exactly as received, every record equal
\* field for field to the record in the response body.
C15_ResultIsReceivedUnchanged ==
    call.pc = "returned" => call.result = Received

\* The keys of a received record that the schema of the retrieval names.
Named(op, item) ==
    {f \in item : f[1] \in (IF op = "entries" THEN {"id", "users_id"} ELSE {"id"})}

\* C15 amended: the result is the concatenation, page 1 first and in server
\* order, of the received records with nothing re-ordered or de-duplicated;
\* each record keeps, with unchanged values, exactly the fields its schema
\* names, and getEntries keeps only the records of the requested user.
C15_ResultIsValidatedConcatenation ==
    call.pc = "returned" =>
        LET validated == [i \in DOMAIN Received |-> Named(call.op, Received[i])]
            Wanted(e) == call.op = "entries" => <<"users_id", call.userId>> \in e
        IN  /\ call.result = SelectSeq(validated, Wanted)
            /\ \A i \in DOMAIN call.result :
                   \E j \in DOMAIN Received : call.result[i] \subseteq Received[j]

C15_Witness ==
    /\ call.pc = "returned"
    /\ call.op = "users"
    /\ Len(fetched) = 2
    /\ Received = <<RawU2, RawU1, RawU2, RawU1>>
    /\ call.result = <<{<<"id", 8>>}, {<<"id", 7>>}, {<<"id", 8>>}, {<<"id", 7>>}>>

\* C16: when a credential is missing the gateway's process ends before its
\* transport is connected and no retrieval is ever started; the transport is
\* connected only with both credentials and a constructed client; and no
\* retrieval fails with the constructor's configuration error.
C16_MissingCredentialsFailStartupOnly ==
    /\ (transport # "closed" /\ ~BothCredentialsSet) =>
           /\ transport = "exited"
           /\ ctor = "threw"
           /\ ctorError = CtorMessage
           /\ call = NoCall
           /\ requests = <<>>
    /\ transport = "connected" => (BothCredentialsSet /\ ctor = "ok")
    /\ call.pc # "idle" => transport = "connected"
    /\ call.pc = "threw" => Head(CtorMessage) \notin Tokens(call.error)

C16_Witness ==
    /\ transport = "exited"
    /\ EnvValue("CLOCKODO_EMAIL") = "user@example.com"
    /\ EnvValue("CLOCKODO_API_KEY") = ""
    /\ ctor = "threw"

\* The places where a body departs from the shape retrieval op expects, read
\* off the body: the path of every required field that is missing.
Violations(op, body) ==
    LET key == IF op = "entries" THEN "entries" ELSE "data"
        needed == IF op = "entries" THEN {"id", "users_id"} ELSE {"id"}
        envelope == {"items_per_page", "current_page", "count_pages", "count_items"}
    IN  (IF body.payloadKey # key THEN {<<key>>}
         ELSE {<<key, ToString(q[1] - 1), q[2]>> :
                  q \in {r \in (DOMAIN body.items) \X needed :
                            ~Has(body.items[r[1]], r[2])}})
        \cup (IF ~body.hasPaging THEN {<<"paging">>}
              ELSE {<<"paging", f>> : f \in {g \in envelope : ~Has(body.paging, g)}})

\* Text seq describes the violation at path: an issue of that path, followed
\* by the next issue or by the end of the text.
Describes(seq, path) ==
    LET issue == <<"invalid_type", "Required">> \o path
    IN  \E k \in DOMAIN seq :
            /\ k + Len(issue) - 1 <= Len(seq)
            /\ SubSeq(seq, k, k + Len(issue) - 1) = issue
            /\ k + Len(issue) <= Len(seq) => seq[k + Len(issue)] = "invalid_type"

\* C19: the shape error a retrieval throws describes every violation of the
\* body that caused it, each once, and nothing else.
C19_ShapeErrorDescribesEveryViolation ==
    (call.pc = "threw" /\ Last(fetched).kind = "shape") =>
        LET found == Violations(call.op, lastResponse.body)
        IN  /\ found # {}
            /\ \A v \in found : Describes(Cause, v)
            /\ Cardinality({k \in DOMAIN Cause : Cause[k] = "invalid_type"})
                   = Cardinality(found)

C19_Witness ==
    /\ call.pc = "threw"
    /\ call.op = "entries"
    /\ Last(fetched).kind = "shape"
    /\ lastResponse.body.items = <<RawEmpty, RawNoId>>
    /\ Cardinality(Violations(call.op, lastResponse.body)) = 5
    /\ Describes(Cause, <<"paging", "count_items">>)
    /\ Describes(Cause, <<"entries", "0", "users_id">>)

\* The names of the query parameters of a request, and the value of one.
ParamNames(req) == {req.query[i][1] : i \in DOMAIN req.query}

Param(req, name) == req.query[CHOOSE i \in DOMAIN req.query : req.query[i][1] = name][2]

\* C18: every request is a GET to /v3/users, /v4/projects or /v2/entries
\* with one page parameter; the requests of a getEntries call carry the
\* caller's timeSince and timeUntil unchanged on every page and no user
\* filter; the requests of getUsers and getProjects carry page alone.
C18_RequestsAreReadOnlyAndCarryCallersRange ==
    \A i \in DOMAIN requests :
        LET req == requests[i]
        IN  /\ req.method = "GET"
            /\ req.path \in {"/v3/users", "/v4/projects", "/v2/entries"}
            /\ Cardinality({k \in DOMAIN req.query : req.query[k][1] = "page"}) = 1
            /\ Param(req, "page") = ToString(i)
            /\ req.path = "/v2/entries" =>
                   /\ call.op = "entries"
                   /\ ParamNames(req) = {"time_since", "time_until", "page"}
                   /\ Len(req.query) = 3
                   /\ Param(req, "time_since") = call.timeSince
                   /\ Param(req, "time_until") = call.timeUntil
            /\ req.path # "/v2/entries" =>
                   /\ call.op = FamilyOf(req.path)
                   /\ ParamNames(req) = {"page"}
                   /\ Len(req.query) = 1

C18_Witness ==
    /\ call.op = "entries"
    /\ call.userId = 2
    /\ call.timeSince = "2025-10-01T00:00:00"
    /\ Len(requests) = 3
    /\ \A i \in 1..3 :
           /\ Param(requests[i], "time_since") = "2025-10-01T00:00:00"
           /\ Param(requests[i], "time_until") = "2025-10-31T23:59:59.999Z"

\* C20: whatever count_pages each answer declares, a retrieval requests
\* page 1 first and page k + 1 exactly when the validated answer to page k
\* declared count_pages > k; it returns at the least k whose answer declared
\* count_pages <= k (at page 1 for 0, 1 or a negative number), and stays
\* suspended on the next page for as long as every answer declared more.
C20_StopsAtFirstPageNotBelowItsCount ==
    /\ call.pc # "idle" => (requests # <<>> /\ PageOf(requests[1]) = "1")
    /\ \A i \in DOMAIN fetched : fetched[i].page = i
    /\ \A i \in DOMAIN requests :
           i > 1 => (fetched[i - 1].kind = "ok" /\ fetched[i - 1].count_pages > i - 1)
    /\ PageAnswered =>
           /\ call.pc = "returned" <=> Last(fetched).count_pages <= Len(fetched)
           /\ call.pc = "await" <=> Last(fetched).count_pages > Len(fetched)
           /\ call.pc = "await" =>
                  /\ Len(requests) = Len(fetched) + 1
                  /\ PageOf(Last(requests)) = ToString(Len(fetched) + 1)
    /\ call.pc = "returned" =>
           /\ Len(requests) = Len(fetched)
           /\ Len(fetched) =
                  CHOOSE k \in DOMAIN fetched :
                      /\ fetched[k].count_pages <= k
                      /\ \A j \in 1..(k - 1) : fetched[j].count_pages > j

C20_Witness ==
    /\ backend = "recounting"
    /\ call.pc = "returned"
    /\ Len(fetched) = MaxPages + 1
    /\ fetched[1].count_pages = 2
    /\ \A i \in 1..MaxPages : fetched[i].count_pages > i
    /\ Last(fetched).count_pages = -1

\* Every validated answer so far declared count_pages = N.
Uniform(N) ==
    \A i \in DOMAIN fetched : fetched[i].kind = "ok" => fetched[i].count_pages = N

\* C17: when every request is eventually answered and the answers declare
\* one fixed count_pages, a suspended retrieval eventually returns or
\* throws; and a suspended retrieval changes only by the answer to its
\* request, which makes it go on, return (a validated answer) or throw (a
\* failed one): nothing else ends it.
C17_StartedRetrievalFinishes ==
    /\ \A N \in (-1)..(MaxPages + 1) :
           (call.pc = "await" /\ Uniform(N))
               ~> (call.pc \in {"returned", "threw"} \/ ~Uniform(N))
    /\ [][call.pc = "await" =>
              /\ call'.pc \in {"await", "returned", "threw"}
              /\ call' # call =>
                     /\ fetched' = Append(fetched, Last(fetched'))
                     /\ call'.pc = "threw" <=> Last(fetched').kind # "ok"]_vars

C17_Witness ==
    /\ backend = "recounting"
    /\ call.pc = "returned"
    /\ Len(fetched) = MaxPages
    /\ Uniform(MaxPages)
    /\ Len(call.result) > 0

\* What a retrieval started as c returns or throws when it is the only one
\* running against remote rem.
RECURSIVE RunAlone(_, _)
RunAlone(c, rem) ==
    IF c.pc # "await" THEN c
    ELSE LET r == MakeRequest(c.op, Endpoint(c), AnswerOf(rem, c.op, c.page))
         IN  RunAlone(IF r.ok THEN LoopTest(OnPage(c, r.value))
                      ELSE OnThrow(c, r.message), rem)

\* The number of requests that run makes.
RequestsAlone(c, rem) ==
    LET end == RunAlone(c, rem)
    IN  IF end.pc = "threw" THEN end.page ELSE end.page - 1

\* C14: under every interleaving of the page fetches of two retrievals on
\* one client against an unchanging remote, each retrieval requests pages
\* 1, 2, ... of its own endpoint, never more than when it runs alone, and
\* ends with the result or the error, after the requests, of its run alone.
C14_ConcurrentRetrievalsDoNotInterfere ==
    \A id \in CallIds :
        calls[id].pc # "idle" =>
            LET c == calls[id]
                first == NewCall(c.op, c.userId, c.timeSince, c.timeUntil)
                alone == RunAlone(first, remote)
            IN  /\ \A i \in DOMAIN sent[id] :
                       /\ PageOf(sent[id][i]) = ToString(i)
                       /\ FamilyOf(sent[id][i].path) = c.op
                /\ Len(sent[id]) <= RequestsAlone(first, remote)
                /\ c.pc # "await" =>
                       /\ c.pc = alone.pc
                       /\ c.result = alone.result
                       /\ c.error = alone.error
                       /\ Len(sent[id]) = RequestsAlone(first, remote)

C14_Witness ==
    /\ remote.count = MaxPages
    /\ remote.failAt = 0
    /\ calls[1].op = "entries" /\ calls[1].userId = 1
    /\ calls[2].op = "users"
    /\ calls[1].pc = "returned" /\ calls[2].pc = "returned"
    /\ Len(sent[1]) = MaxPages /\ Len(sent[2]) = MaxPages
    /\ \E i \in DOMAIN log : \E j \in DOMAIN log :
           /\ i < j
           /\ "/v3/users" \in Tokens(log[i])
           /\ "/v2/entries" \in Tokens(log[j])
    /\ Len(calls[1].result) < Len(calls[2].result)

\* A text that is a number: an optional sign and then digits only.
IsNumberText(chars) ==
    LET digits == IF chars # <<>> /\ Head(chars) \in {"+", "-"} THEN Tail(chars)
                  ELSE chars
    IN  digits # <<>> /\ \A i \in DOMAIN digits : IsDigit(digits[i])

\* C21: a read of the entries resource whose userId is not a number or
\* whose timeSince or timeUntil does not match the date pattern is rejected
\* with the invalid-input error, getEntries is not invoked and no request is
\* sent; a read with a numeric userId and two matching timestamps invokes
\* getEntries once with those values.
C21_InvalidReadRejectedBeforeGetEntries ==
    read.outcome # "none" =>
        LET numeric == IsNumberText(Chars(read.userId))
            matching == /\ DateRegexTest(Chars(read.timeSince))
                        /\ DateRegexTest(Chars(read.timeUntil))
        IN  /\ ~(numeric /\ matching) =>
                   /\ read.outcome = "rejected"
                   /\ read.invocations = 0
                   /\ call = NoCall
                   /\ requests = <<>>
                   /\ Head(read.error) = "Failed to fetch entries: "
            /\ (numeric /\ matching) =>
                   /\ read.invocations = 1
                   /\ call.op = "entries"
                   /\ ToString(call.userId) = read.userId
                   /\ call.timeSince = read.timeSince
                   /\ call.timeUntil = read.timeUntil
                   /\ requests # <<>>

\* C22: makeRequest decides on the status before the body.  A non-2xx
\* response gives the HTTP error whatever its body holds, even a body that
\* would validate, and its body is neither parsed nor validated; a shape
\* error comes from a 2xx response with a JSON body only; and a 2xx body
\* that is no JSON gives the parser's SyntaxError, class and message
\* unchanged, not the shape error.
C22_StatusDecidedBeforeBody ==
    fetched # <<>> =>
        LET f == Last(fetched)
            ok == lastResponse.kind = "http" /\ lastResponse.status \in 200..299
            written == {log[i] : i \in {j \in DOMAIN log : j >= Len(log) - 2}}
        IN  /\ (lastResponse.kind = "http" /\ ~ok) =>
                   /\ f.kind = "http"
                   /\ f.name = "Error"
                   /\ f.message = <<"HTTP ", ToString(lastResponse.status), ": ",
                                    lastResponse.statusText>>
                   /\ call.pc = "threw"
                   /\ \A e \in written :
                          /\ "Response data received" \notin Tokens(e)
                          /\ "Zod validation error" \notin Tokens(e)
                          /\ "Data successfully validated with schema" \notin Tokens(e)
            /\ f.kind = "shape" => (ok /\ lastResponse.bodyKind = "object")
            /\ (ok /\ lastResponse.bodyKind = "text") =>
                   /\ f.kind = "syntax"
                   /\ f.name = "SyntaxError"
                   /\ f.message = SyntaxErrorMessage
                   /\ call.pc = "threw"
                   /\ Cause = SyntaxErrorMessage
                   /\ "Invalid API response format: " \notin Tokens(call.error)

C22_Witness ==
    /\ call.pc = "threw"
    /\ call.op = "users"
    /\ Len(fetched) = 2
    /\ lastResponse.status = 500
    /\ lastResponse.bodyKind = "object"
    /\ SchemaIssues("users", lastResponse.body) = <<>>
    /\ Last(fetched).kind = "http"

====
